---- MODULE Spec2Model ----
(***************************************************************************)
(* The reactivity core of packages/reactivity: Dep (dep.ts), ReactiveEffect *)
(* and the track/trigger entry points (effect.ts), RefImpl (ref.ts) and     *)
(* ComputedRefImpl (computed.ts).                                           *)
(*                                                                         *)
(* JavaScript is single threaded, so the model is a stack machine: `stack`  *)
(* is the call stack of the frames that are suspended in user code (the fn  *)
(* of an effect) or in the loop of triggerEffects.  User code is either the *)
(* top level script (empty stack) or the fn of the effect of the top frame. *)
(* One action is one call the user code makes (read, write, run, stop, ...) *)
(* or one iteration of the triggerEffects loop.                             *)
(***************************************************************************)
EXTENDS Integers, Sequences, FiniteSets, TLC

\* ------------------------------------------------------------------ bounds
\* depth of the call stack explored when the effects run arbitrary user code
MaxStack == 2
\* depth of the call stack explored when the effects run fixed programs
MaxNest == 4
\* number of observations an observing effect makes
MaxLog == 3
\* number of reads of c1.value that are counted
MaxReads == 3
\* depth of the stack of pauseTracking / enableTracking
MaxPause == 2

\* ------------------------------------------------------- program constants
maxMarkerBits == 30

None == "none"
\* the JavaScript values undefined and NaN, outside the numbers 0, 1, 2, ...
Undef == 0 - 2
NaN == 0 - 1
\* the value of a key the object does not have
Absent == 0 - 3

\* ------------------------------------------------------------- the objects
\* the effects whose fn is arbitrary user code, and all the effects made by effect()
FreeEffects == {"e1", "e2"}
PlainEffects == FreeEffects \cup {"e3"}
Computeds == {"c1", "c2"}
ComputedEffects == {"ce1", "ce2"}
\* thirty effects whose fn only calls the runner of the next one (the last
\* one calls the runner of e1): a call chain of thirty nested runs
WrapSeq ==
  <<"w1", "w2", "w3", "w4", "w5", "w6", "w7", "w8", "w9", "w10", "w11",
    "w12", "w13", "w14", "w15", "w16", "w17", "w18", "w19", "w20", "w21",
    "w22", "w23", "w24", "w25", "w26", "w27", "w28", "w29", "w30">>
Wrappers == {WrapSeq[i] : i \in 1..Len(WrapSeq)}
NextOf(w) ==
  LET i == CHOOSE j \in 1..Len(WrapSeq) : WrapSeq[j] = w
  IN IF i < Len(WrapSeq) THEN WrapSeq[i + 1] ELSE "e1"
Effects == PlainEffects \cup ComputedEffects
Refs == {"a", "b"}
\* the keys of the reactive array that get a Dep in targetMap: the indices
\* 0, 1, 2 (property keys are strings) and "length"
Indices == {0, 1, 2}
KeyOf(i) == <<"0", "1", "2">>[i + 1]
Keys == {KeyOf(i) : i \in Indices} \cup {"length"}
\* two more keys of the array that get a Dep when they are read: a string key
\* that is not an index and a symbol that is not a built-in symbol
OtherKeys == {"foo", "sym"}
ArrKeys == Keys \cup OtherKeys
\* the reactive plain object obj = reactive({ x: 0 }): its keys x and y, and
\* the iterate-sentinel under which ownKeys tracks
ObjKeys == {"x", "y"}
ITERATE_KEY == "iterate"
\* ReactiveFlags.RAW, which toRaw reads
RAW == "__v_raw"
ObjSlots == ObjKeys \cup {ITERATE_KEY, RAW}
\* every RefImpl and every ComputedRefImpl carries one inline Dep, and
\* targetMap holds one Dep per key of the array and of the object
Slots == Refs \cup Computeds \cup ArrKeys \cup ObjSlots

\* ComputedRefImpl.effect and ReactiveEffect.computed
EffectOf(c) == IF c = "c1" THEN "ce1" ELSE "ce2"
ComputedOf(e) == IF e = "ce1" THEN "c1" ELSE IF e = "ce2" THEN "c2" ELSE None

VARIABLES
  val,              \* RefImpl._rawValue of every ref
  arr,              \* the target of the reactive array: the sequence of its elements
  obj,              \* the target of the reactive object: the value of every key, Absent for a key it does not have
  trackStack,       \* the stack of pauseTracking / enableTracking
  dep,              \* the Dep of every slot: exists (ref.dep !== undefined), effs (the Set, in insertion order), w, n
  eff,              \* ReactiveEffect fields: active, deps, parent, deferStop, allowRecurse
  comp,             \* ComputedRefImpl fields: dirty (_dirty), value (_value), cacheable (_cacheable)
  activeEffect,
  effectTrackDepth,
  trackOpBit,
  shouldTrack,
  stack,            \* the call stack, innermost frame last
  exc,              \* an exception thrown by user code is propagating
  prog,             \* the fn of every effect (which user program it is)
  calls,            \* the counter the getter "sum" increments on every execution
  log,              \* what each observing effect has pushed to its log
  done,             \* history: what the last step was (the run() that returned, the computed read that was answered, the trap that was called)
  hist,             \* history: what each observing effect is expected to have seen
  nread,            \* history: number of reads of c1.value, counted next to `calls`
  cache             \* history: per computed, the refs its last execution read, and whether one changed since

vars == <<val, arr, obj, trackStack, dep, eff, comp, activeEffect, effectTrackDepth, trackOpBit,
          shouldTrack, stack, exc, prog, calls, log, done, hist, nread, cache>>

\* what run() found when it was entered: the active effect, the depth, the
\* bit, shouldTrack and the deps of the effect
NoPre == [ae |-> None, depth |-> 0, bit |-> 1, st |-> TRUE, deps |-> {}]

NoEvent ==
  [e |-> None, reads |-> {}, c |-> None, v |-> Undef,
   ro |-> None, ret |-> FALSE, err |-> FALSE, key |-> None, rcv |-> None,
   sched |-> None]

\* The mutable state as one record, so that the functions of the source
\* compose as operators from state to state.  Every action starts from Cur.
Cur ==
  [val |-> val, arr |-> arr, obj |-> obj, trackStack |-> trackStack, dep |-> dep, eff |-> eff, comp |-> comp,
   activeEffect |-> activeEffect, effectTrackDepth |-> effectTrackDepth,
   trackOpBit |-> trackOpBit, shouldTrack |-> shouldTrack,
   stack |-> stack, exc |-> exc, calls |-> calls, log |-> log,
   done |-> NoEvent, hist |-> hist, nread |-> nread, cache |-> cache]

Commit(st) ==
  /\ val' = st.val
  /\ arr' = st.arr
  /\ obj' = st.obj
  /\ trackStack' = st.trackStack
  /\ dep' = st.dep
  /\ eff' = st.eff
  /\ comp' = st.comp
  /\ activeEffect' = st.activeEffect
  /\ effectTrackDepth' = st.effectTrackDepth
  /\ trackOpBit' = st.trackOpBit
  /\ shouldTrack' = st.shouldTrack
  /\ stack' = st.stack
  /\ exc' = st.exc
  /\ calls' = st.calls
  /\ log' = st.log
  /\ done' = st.done
  /\ hist' = st.hist
  /\ nread' = st.nread
  /\ cache' = st.cache
  /\ UNCHANGED prog

\* ------------------------------------------------------------ bit helpers
\* x & bit, for a one-bit mask
BitAnd(x, bit) == IF bit > 0 /\ (x \div bit) % 2 = 1 THEN bit ELSE 0
\* x | bit
BitOr(x, bit) == IF BitAnd(x, bit) > 0 THEN x ELSE x + bit
\* x & ~bit
BitClear(x, bit) == IF BitAnd(x, bit) > 0 THEN x - bit ELSE x
\* 1 << k on 32-bit integers: the shift count is taken modulo 32
Shl1(k) ==
  LET s == k % 32 IN
  IF s = 31 THEN (0 - 1073741824) - 1073741824 ELSE 2 ^ s

\* ------------------------------------------------------------ set helpers
SeqHas(s, x) == \E i \in 1..Len(s) : s[i] = x
\* Set.prototype.delete
SetDelete(s, x) == SelectSeq(s, LAMBDA y : y # x)
\* Set.prototype.add keeps the insertion order
SetAdd(s, x) == IF SeqHas(s, x) THEN s ELSE Append(s, x)

\* ------------------------------------------------------------------ dep.ts
createDep == [exists |-> TRUE, effs |-> <<>>, w |-> 0, n |-> 0]
noDep == [exists |-> FALSE, effs |-> <<>>, w |-> 0, n |-> 0]

wasTracked(d, bit) == BitAnd(d.w, bit) > 0
newTracked(d, bit) == BitAnd(d.n, bit) > 0

RECURSIVE InitLoop(_, _, _, _)
InitLoop(dm, deps, i, bit) ==
  IF i > Len(deps) THEN dm
  ELSE InitLoop([dm EXCEPT ![deps[i]].w = BitOr(@, bit)], deps, i + 1, bit)

initDepMarkers(st, e) ==
  [st EXCEPT !.dep = InitLoop(st.dep, st.eff[e].deps, 1, st.trackOpBit)]

\* the loop of finalizeDepMarkers: acc = <<deps map, kept list>>
RECURSIVE FinalizeLoop(_, _, _, _, _, _)
FinalizeLoop(dm, kept, deps, i, e, bit) ==
  IF i > Len(deps) THEN <<dm, kept>>
  ELSE
    LET s == deps[i]
        drop == wasTracked(dm[s], bit) /\ ~newTracked(dm[s], bit)
        d1 == IF drop THEN [dm[s] EXCEPT !.effs = SetDelete(@, e)] ELSE dm[s]
        d2 == [d1 EXCEPT !.w = BitClear(@, bit), !.n = BitClear(@, bit)]
    IN FinalizeLoop([dm EXCEPT ![s] = d2],
                    IF drop THEN kept ELSE Append(kept, s),
                    deps, i + 1, e, bit)

finalizeDepMarkers(st, e) ==
  LET r == FinalizeLoop(st.dep, <<>>, st.eff[e].deps, 1, e, st.trackOpBit)
  IN [st EXCEPT !.dep = r[1], !.eff[e].deps = r[2]]

\* --------------------------------------------------------------- effect.ts
\* a faulty cleanupEffect that empties the deps list of the effect and leaves
\* the effect in the Deps
cleanupEffectKeepsMembers(st, e) == [st EXCEPT !.eff[e].deps = <<>>]

cleanupEffect(st, e) ==
  [st EXCEPT
     !.dep = [s \in Slots |->
                IF SeqHas(st.eff[e].deps, s)
                THEN [st.dep[s] EXCEPT !.effs = SetDelete(@, e)]
                ELSE st.dep[s]],
     !.eff[e].deps = <<>>]

stop(st, e) ==
  IF st.activeEffect = e
  THEN [st EXCEPT !.eff[e].deferStop = TRUE]
  ELSE IF st.eff[e].active
       THEN [cleanupEffect(st, e) EXCEPT !.eff[e].active = FALSE]
       ELSE st

\* the walk over the parent chain at the head of run()
RECURSIVE InChain(_, _, _, _)
InChain(st, p, e, fuel) ==
  IF p = None \/ fuel = 0 THEN FALSE
  ELSE IF p = e THEN TRUE
  ELSE InChain(st, st.eff[p].parent, e, fuel - 1)

Frame(kind, e, tracked, lastST, via, cget, list) ==
  [kind |-> kind, e |-> e, tracked |-> tracked, lastST |-> lastST, via |-> via,
   cget |-> cget, reads |-> {}, vals |-> <<>>, list |-> list, phase |-> 1, idx |-> 1,
   fired |-> <<>>, pre |-> NoPre]

Push(st, f) == [st EXCEPT !.stack = Append(@, f)]

\* this.fn() is called: the getter "sum" starts with calls++
callFn(st, f) ==
  Push([st EXCEPT !.calls = IF prog[f.e] = "sum" THEN @ + 1 ELSE @], f)

\* ReactiveEffect.run up to the call of this.fn(): the frame pushed is the
\* execution of fn.  No frame is pushed when run returns at the parent walk.
run(st, e, via, cget) ==
  IF ~st.eff[e].active
  THEN callFn(st, Frame("fn", e, FALSE, st.shouldTrack, via, cget, <<>>))
  ELSE IF InChain(st, st.activeEffect, e, Cardinality(DOMAIN st.eff) + 1)
  THEN st
  ELSE
    LET depth == st.effectTrackDepth + 1
        s1 == [st EXCEPT !.eff[e].parent = st.activeEffect,
                         !.activeEffect = e,
                         !.shouldTrack = TRUE,
                         !.effectTrackDepth = depth,
                         !.trackOpBit = Shl1(depth)]
        s2 == IF depth <= maxMarkerBits THEN initDepMarkers(s1, e)
              ELSE cleanupEffect(s1, e)
        pre == [ae |-> st.activeEffect, depth |-> st.effectTrackDepth,
                bit |-> st.trackOpBit, st |-> st.shouldTrack,
                deps |-> {st.eff[e].deps[i] : i \in 1..Len(st.eff[e].deps)}]
    IN callFn(s2, [Frame("fn", e, TRUE, st.shouldTrack, via, cget, <<>>) EXCEPT !.pre = pre])

\* the finally block of run()
runFinally(st, f) ==
  LET e == f.e
      s1 == IF st.effectTrackDepth <= maxMarkerBits THEN finalizeDepMarkers(st, e) ELSE st
      s2 == [s1 EXCEPT !.effectTrackDepth = @ - 1,
                       !.trackOpBit = Shl1(st.effectTrackDepth - 1),
                       !.activeEffect = s1.eff[e].parent,
                       !.shouldTrack = f.lastST,
                       !.eff[e].parent = None]
  IN IF s2.eff[e].deferStop THEN stop(s2, e) ELSE s2

\* index of the frame in which the active effect is running (0: none)
ActiveFrame(st) ==
  LET S == {i \in 1..Len(st.stack) : st.stack[i].kind = "fn" /\ st.stack[i].tracked}
  IN IF S = {} THEN 0 ELSE CHOOSE i \in S : \A j \in S : j <= i

\* a faulty trackEffects that subscribes at every read
trackEffectsEveryRead(st, s) ==
  LET d == st.dep[s]
      ae == st.activeEffect
  IN [st EXCEPT !.dep[s] = [d EXCEPT !.effs = SetAdd(@, ae)],
                !.eff[ae].deps = Append(@, s)]

trackEffects(st, s) ==
  LET d == st.dep[s]
      bit == st.trackOpBit
      ae == st.activeEffect
      marking == st.effectTrackDepth <= maxMarkerBits
      d1 == IF marking /\ ~newTracked(d, bit) THEN [d EXCEPT !.n = BitOr(@, bit)] ELSE d
      should == IF marking
                THEN ~newTracked(d, bit) /\ ~wasTracked(d, bit)
                ELSE ~SeqHas(d.effs, ae)
  IN IF should
     THEN [st EXCEPT !.dep[s] = [d1 EXCEPT !.effs = SetAdd(@, ae)],
                     !.eff[ae].deps = Append(@, s)]
     ELSE [st EXCEPT !.dep[s] = d1]

\* ------------------------------------------------------------------ ref.ts
\* trackRefValue; the read is noted in the frame of the active effect
trackRefValue(st, s) ==
  IF st.shouldTrack /\ st.activeEffect # None
  THEN
    LET s1 == IF st.dep[s].exists THEN st ELSE [st EXCEPT !.dep[s] = createDep]
        s2 == trackEffects(s1, s)
        i == ActiveFrame(s2)
    IN IF i = 0 THEN s2 ELSE [s2 EXCEPT !.stack[i].reads = @ \cup {s}]
  ELSE st

\* triggerEffects up to its first loop: spread the dep into an array
triggerEffects(st, s) ==
  Push(st, Frame("trig", None, FALSE, FALSE, None, None, st.dep[s].effs))

triggerRefValue(st, s) ==
  IF st.dep[s].exists THEN triggerEffects(st, s) ELSE st

\* hasChanged of @vue/shared: !Object.is(value, oldValue)
hasChanged(v, old) == v # old

\* ------------------------------------------------------------- computed.ts
\* the scheduler given to the effect of a computed
\* a faulty scheduler that triggers whether or not the computed is dirty
computedSchedulerAlways(st, c) ==
  triggerRefValue([st EXCEPT !.comp[c].dirty = TRUE], c)

computedScheduler(st, c) ==
  IF ~st.comp[c].dirty
  THEN triggerRefValue([st EXCEPT !.comp[c].dirty = TRUE], c)
  ELSE st

\* a faulty triggerEffect that ignores the scheduler of the effect
triggerEffectNoScheduler(st, e) ==
  IF e # st.activeEffect \/ st.eff[e].allowRecurse
  THEN run(st, e, "trigger", None)
  ELSE st

triggerEffect(st, e) ==
  IF e # st.activeEffect \/ st.eff[e].allowRecurse
  THEN IF ComputedOf(e) # None
       THEN computedScheduler(st, ComputedOf(e))
       ELSE run(st, e, "trigger", None)
  ELSE st

\* pauseTracking, enableTracking and resetTracking
pauseTracking(st) ==
  [st EXCEPT !.trackStack = Append(@, st.shouldTrack), !.shouldTrack = FALSE]

enableTracking(st) ==
  [st EXCEPT !.trackStack = Append(@, st.shouldTrack), !.shouldTrack = TRUE]

\* a faulty resetTracking that always resumes tracking
resetTrackingResumes(st) ==
  [st EXCEPT !.shouldTrack = TRUE,
             !.trackStack = IF @ = <<>> THEN @ ELSE SubSeq(@, 1, Len(@) - 1)]

resetTracking(st) ==
  IF st.trackStack = <<>>
  THEN [st EXCEPT !.shouldTrack = TRUE]
  ELSE [st EXCEPT !.shouldTrack = st.trackStack[Len(st.trackStack)],
                  !.trackStack = SubSeq(@, 1, Len(@) - 1)]

\* a faulty track that goes on while tracking is paused
trackWhilePaused(st, key) ==
  IF st.activeEffect # None
  THEN
    LET s1 == IF st.dep[key].exists THEN st ELSE [st EXCEPT !.dep[key] = createDep]
        s2 == trackEffects(s1, key)
        i == ActiveFrame(s2)
    IN IF i = 0 THEN s2 ELSE [s2 EXCEPT !.stack[i].reads = @ \cup {key}]
  ELSE st

\* track(target, type, key): key -> Dep in the depsMap of the target; the
\* read is noted in the frame of the active effect
track(st, key) ==
  IF st.shouldTrack /\ st.activeEffect # None
  THEN
    LET s1 == IF st.dep[key].exists THEN st ELSE [st EXCEPT !.dep[key] = createDep]
        s2 == trackEffects(s1, key)
        i == ActiveFrame(s2)
    IN IF i = 0 THEN s2 ELSE [s2 EXCEPT !.stack[i].reads = @ \cup {key}]
  ELSE st

\* a faulty merge that fires the array of the members without createDep
RECURSIVE CollectWithoutSet(_, _, _, _)
CollectWithoutSet(st, deps, i, acc) ==
  IF i > Len(deps) THEN acc
  ELSE LET d == st.dep[deps[i]]
       IN CollectWithoutSet(st, deps, i + 1, IF d.exists THEN acc \o d.effs ELSE acc)

\* effects.push(...dep) for every dep of deps that exists, then createDep(effects)
RECURSIVE CollectEffects(_, _, _, _)
CollectEffects(st, deps, i, acc) ==
  IF i > Len(deps) THEN acc
  ELSE LET d == st.dep[deps[i]]
           RECURSIVE AddAll(_, _, _)
           AddAll(a, l, j) == IF j > Len(l) THEN a ELSE AddAll(SetAdd(a, l[j]), l, j + 1)
       IN CollectEffects(st, deps, i + 1, IF d.exists THEN AddAll(acc, d.effs, 1) ELSE acc)

\* a faulty trigger that fires the effects of every key of the target
triggerEveryKey(st, type, key) ==
  IF \A k \in ArrKeys : ~st.dep[k].exists
  THEN st
  ELSE Push(st, Frame("trig", None, FALSE, FALSE, None, None,
                      CollectEffects(st, <<"0", "1", "2", "length">>, 1, <<>>)))

\* trigger(target, type, key) for the array and an integer key, type SET or ADD
trigger(st, type, key) ==
  IF \A k \in ArrKeys : ~st.dep[k].exists
  THEN st
  ELSE
    LET deps == IF type = "add" THEN <<key, "length">> ELSE <<key>>
    IN IF Len(deps) = 1
       THEN IF st.dep[deps[1]].exists THEN triggerEffects(st, deps[1]) ELSE st
       ELSE Push(st, Frame("trig", None, FALSE, FALSE, None, None,
                           CollectEffects(st, deps, 1, <<>>)))

\* the integer a key of the array stands for
IndexOf(k) == CHOOSE j \in Indices : KeyOf(j) = k

\* trigger(target, SET, "length", newValue) for the array.  depsMap.forEach
\* evaluates key >= newValue for every key but "length": a key that is not an
\* index compares false, and a symbol key throws a TypeError (a symbol cannot
\* be converted to a number) before any effect is fired.  The Deps are taken
\* in the order of the keys.
triggerLength(st, newValue) ==
  IF \A k \in ArrKeys : ~st.dep[k].exists
  THEN st
  ELSE IF st.dep["sym"].exists
  THEN [st EXCEPT !.exc = TRUE, !.done.err = TRUE]
  ELSE
    LET deps == SelectSeq(<<"0", "1", "2", "length">>,
                          LAMBDA k : /\ st.dep[k].exists
                                     /\ (k = "length" \/ IndexOf(k) >= newValue))
    IN IF Len(deps) = 1
       THEN triggerEffects(st, deps[1])
       ELSE Push(st, Frame("trig", None, FALSE, FALSE, None, None,
                           CollectEffects(st, deps, 1, <<>>)))

\* a faulty trigger that leaves out the Dep of the iterate-sentinel
triggerObjectKeyOnly(st, type, key) ==
  IF st.dep[key].exists THEN triggerEffects(st, key) ELSE st

\* trigger(target, type, key) for the plain object, type SET, ADD or DELETE
triggerObject(st, type, key) ==
  IF \A k \in ObjSlots : ~st.dep[k].exists
  THEN st
  ELSE
    LET deps == IF type \in {"add", "delete"} THEN <<key, ITERATE_KEY>> ELSE <<key>>
    IN IF Len(deps) = 1
       THEN IF st.dep[deps[1]].exists THEN triggerEffects(st, deps[1]) ELSE st
       ELSE Push(st, Frame("trig", None, FALSE, FALSE, None, None,
                           CollectEffects(st, deps, 1, <<>>)))

\* ---------------------------------------------------------- baseHandlers.ts
\* target[key] of the array: a missing index is undefined
ArrGet(a, key) ==
  IF key = "length" THEN Len(a)
  ELSE LET i == CHOOSE j \in Indices : KeyOf(j) = key
       IN IF i < Len(a) THEN a[i + 1] ELSE Undef

\* Reflect.set(target, i, v) on the array: a write past the end leaves holes
ArrSet(a, i, v) ==
  [j \in 1..(IF i < Len(a) THEN Len(a) ELSE i + 1) |->
     IF j = i + 1 THEN v ELSE IF j <= Len(a) THEN a[j] ELSE Undef]

\* the get trap of mutableHandlers, for an index or "length" of the array
createGetter(st, key) == track(st, key)

\* the set trap of mutableHandlers, for index i of the array
createSetter(st, i, v) ==
  LET oldValue == ArrGet(st.arr, KeyOf(i))
      hadKey == i < Len(st.arr)
      s1 == [st EXCEPT !.arr = ArrSet(st.arr, i, v), !.done.ret = TRUE]
  IN IF ~hadKey THEN trigger(s1, "add", KeyOf(i))
     ELSE IF hasChanged(v, oldValue) THEN trigger(s1, "set", KeyOf(i))
     ELSE s1

\* target[key] of the plain object: a missing key is undefined
ObjGet(o, key) == IF o[key] = Absent THEN Undef ELSE o[key]

\* the receivers of a write: the proxy of the target, or an object that has
\* the proxy as its prototype (child = Object.create(proxy))
Receivers == {"proxy", "child"}

\* toRaw(receiver): it reads receiver.__v_raw.  For the child the read reaches
\* the get trap of the prototype with the child as receiver, which is not the
\* proxy of the target, so that the trap goes on to track(target, GET, RAW).
toRawReceiver(st, receiver) ==
  IF receiver = "proxy" THEN st ELSE track(st, RAW)

\* a faulty set trap that triggers SET without comparing the values
setWithoutHasChanged(st, key, v, receiver) ==
  LET hadKey == st.obj[key] # Absent
      s1 == [st EXCEPT !.obj[key] = IF receiver = "proxy" THEN v ELSE @,
                       !.done.ret = TRUE]
      s2 == toRawReceiver(s1, receiver)
  IN IF receiver = "proxy"
     THEN triggerObject(s2, IF hadKey THEN "set" ELSE "add", key)
     ELSE s2

\* the set trap of mutableHandlers, for a key of the plain object and a value
\* that is not a ref.  With the child as receiver Reflect.set defines the
\* property on the child and the target keeps its value.
set(st, key, v, receiver) ==
  LET oldValue == ObjGet(st.obj, key)
      hadKey == st.obj[key] # Absent
      s1 == [st EXCEPT !.obj[key] = IF receiver = "proxy" THEN v ELSE @,
                       !.done.ret = TRUE]
      s2 == toRawReceiver(s1, receiver)
  IN IF receiver = "proxy"
     THEN IF ~hadKey THEN triggerObject(s2, "add", key)
          ELSE IF hasChanged(v, oldValue) THEN triggerObject(s2, "set", key)
          ELSE s2
     ELSE s2

\* the deleteProperty trap of mutableHandlers, for a key of the plain object
deleteProperty(st, key) ==
  LET hadKey == st.obj[key] # Absent
      s1 == [st EXCEPT !.obj[key] = Absent, !.done.ret = TRUE]
  IN IF hadKey THEN triggerObject(s1, "delete", key) ELSE s1

\* the ownKeys trap of mutableHandlers
ownKeys(st, target) ==
  track(st, IF target = "arr" THEN "length" ELSE ITERATE_KEY)

\* Reflect.set(target, "length", n): the array is cut, or padded with holes
ArrSetLength(a, n) == [j \in 1..n |-> IF j <= Len(a) THEN a[j] ELSE Undef]

\* the set trap of mutableHandlers, for the key "length" of the array
createSetterLength(st, n) ==
  LET oldValue == Len(st.arr)
      s1 == [st EXCEPT !.arr = ArrSetLength(st.arr, n), !.done.ret = TRUE]
  IN IF hasChanged(n, oldValue) THEN triggerLength(s1, n) ELSE s1

\* the deleteProperty trap of mutableHandlers, for an index of the array: the
\* index becomes a hole
arrayDelete(st, i) ==
  LET hadKey == st.arr[i + 1] # Undef
      s1 == [st EXCEPT !.arr[i + 1] = Undef]
  IN IF hadKey THEN trigger(s1, "delete", KeyOf(i)) ELSE s1

\* The instrumented push, pop, shift, unshift and splice: pauseTracking(),
\* the method of Array.prototype applied to the proxy, resetTracking().  The
\* call stays on the stack while the effects its writes trigger are run.
MethFrame(st, key) == Frame("meth", None, FALSE, st.shouldTrack, key, None, <<>>)

\* arr.push(v) up to the return of the set trap for the new index
arrayPush(st, v) ==
  LET s1 == pauseTracking(Push(st, MethFrame(st, "push")))
      s2 == createGetter(s1, "length")
  IN createSetter(s2, Len(s2.arr), v)

\* arr.pop() up to the return of the deleteProperty trap for the last index
arrayPop(st) ==
  LET s1 == pauseTracking(Push(st, MethFrame(st, "pop")))
      s2 == createGetter(s1, "length")
      n == Len(s2.arr)
  IN IF n = 0 THEN s2
     ELSE arrayDelete(createGetter(s2, KeyOf(n - 1)), n - 1)

\* the method has returned: resetTracking(), return res
methReturn(st) ==
  LET s1 == resetTracking(st)
  IN [s1 EXCEPT !.stack = SubSeq(@, 1, Len(@) - 1), !.done.ret = TRUE]

\* the rest of the method: the set trap for length, with the length after
\* the push (which the target already has) or the length without the last
\* index
methResume(st) ==
  LET n == Len(st.stack)
      f == st.stack[n]
      len == Len(st.arr)
  IN IF f.phase = 2 THEN methReturn(st)
     ELSE LET newLen == IF f.via = "pop" /\ len > 0 THEN len - 1 ELSE len
              s1 == createSetterLength([st EXCEPT !.stack[n].phase = 2], newLen)
          IN IF s1.exc \/ Len(s1.stack) > n THEN s1 ELSE methReturn(s1)

\* a faulty set trap of readonlyHandlers that writes through to the target
readonlySetThrough(st, i, v) == createSetter(st, i, v)

\* the set trap of readonlyHandlers
readonlySet(st, i, v) == [st EXCEPT !.done.ret = TRUE]

\* the deleteProperty trap of readonlyHandlers
readonlyDelete(st, i) == [st EXCEPT !.done.ret = TRUE]

\* ------------------------------------------------------------ user programs
\* The fn of an effect is one of these programs:
\*   free    arbitrary user code: any call, in any order
\*   keys    user code that only reads keys of the array, in any order: the
\*           fn of e1 arr[0], the fn of e2 arr.length, the fn of e3 arr[2],
\*           arr.foo and arr[sym]
\*   okeys   user code that only reads obj.x and enumerates the keys of obj,
\*           in any order
\*   reader  user code that only reads a, c1 and c2, in any order
\*   sum     the getter () => { calls++; return a.value + b.value }
\*   cond    the getter () => a.value ? a.value + b.value : 0
\*   ida     the getter () => a.value
\*   obs1    () => log.push(c1.value)
\*   obsCA   () => log.push(c1.value + a.value)
\*   obsA    () => log.push(a.value)
\*   obsI0   () => log.push(arr[0])
\*   obsI2   () => log.push(arr[2])
\*   obsLen  () => log.push(arr.length)
\*   obsAK   () => { Object.keys(arr); log.push(toRaw(arr).length) }
\*   obsKeys () => log.push(Object.keys(obj).join())
\*   obsX    () => log.push(obj.x)
ArrObservers == {"obsI0", "obsI2", "obsLen", "obsAK"}
ObjObservers == {"obsKeys", "obsX"}
Scripted ==
  {"sum", "cond", "ida", "obs1", "obsCA", "obsA", "obsB"} \cup ArrObservers \cup ObjObservers
Observers == {"obs1", "obsCA", "obsA", "obsB"} \cup ArrObservers \cup ObjObservers
\* the key an observer of the array reads
ObsKey(k) == IF k = "obsI0" THEN "0" ELSE IF k = "obsI2" THEN "2" ELSE "length"
\* the key under which an observer of the object is tracked
ObjObsKey(k) == IF k = "obsKeys" THEN ITERATE_KEY ELSE "x"
\* Object.keys(obj) as a number: 1 for x plus 2 for y
KeySetCode(o) ==
  (IF o["x"] # Absent THEN 1 ELSE 0) + (IF o["y"] # Absent THEN 2 ELSE 0)
\* what an observer of the object pushes when the object is o
ObjObserved(k, o) == IF k = "obsKeys" THEN KeySetCode(o) ELSE ObjGet(o, "x")

\* The fn of an effect can also be a fixed list of calls:
\*   outer    () => { a.value; effect(() => log.push(b.value)) }
\*   obsB     () => log.push(b.value)             (the fn of the inner effects)
\*   selfW    () => { r2(); a.value; a.value = 1 - a.value }
\*   stopper  () => stop(r1)
\*   pauser   () => { pauseTracking(); arr[0]; enableTracking(); a.value;
\*                     resetTracking(); arr[0]; resetTracking(); b.value }
\*   recW     () => { a.value; a.value = 1 - a.value }
\*   enum     () => { obj.x; Object.keys(obj) }
\*   pusher   () => { arr.push(1) }
Coded == {"outer", "selfW", "stopper", "recW", "pauser", "enum", "pusher"}
Code(k) ==
  CASE k = "outer" -> << <<"read", "a">>, <<"spawn", None>> >>
    [] k = "selfW" -> << <<"run", "e2">>, <<"read", "a">>, <<"toggle", "a">> >>
    [] k = "stopper" -> << <<"stop", "e1">> >>
    [] k = "recW" -> << <<"read", "a">>, <<"toggle", "a">> >>
    [] k = "enum" -> << <<"read", "x">>, <<"read", ITERATE_KEY>> >>
    [] k = "pusher" -> << <<"push", 1>> >>
    [] k = "pauser" -> << <<"pause", None>>, <<"read", "0">>, <<"enable", None>>,
                          <<"read", "a">>, <<"reset", None>>, <<"read", "0">>,
                          <<"reset", None>>, <<"read", "b">> >>
    [] OTHER -> <<>>

Top == stack[Len(stack)]
\* user code is running: the top level script or the fn of the top frame
UserCtx == ~exc /\ (IF stack = <<>> THEN TRUE ELSE Top.kind = "fn")
Kind == IF stack = <<>> THEN "top" ELSE prog[Top.e]
AnyCode == Kind \in {"top", "free"}
\* the call a fn that is a fixed list of calls makes next
Instr ==
  IF stack # <<>> /\ Top.kind = "fn" /\ Kind \in Coded
       /\ Len(Top.vals) < Len(Code(Kind))
  THEN Code(Kind)[Len(Top.vals) + 1]
  ELSE <<"end", None>>
MayCall(op, x) == AnyCode \/ Instr = <<op, x>>
\* the fn of the top frame has made one more of its calls
Step(st) ==
  IF stack # <<>> /\ Top.kind = "fn" /\ Kind \in Coded
  THEN [st EXCEPT !.stack[Len(stack)].vals = Append(@, Undef)]
  ELSE st

\* the keys of the array the fn "keys" of an effect reads
KeysRead(e) ==
  IF e = "e1" THEN {"0"} ELSE IF e = "e2" THEN {"length"} ELSE {"2"} \cup OtherKeys

MayRead(s) ==
  IF Kind \in {"top", "free"} THEN TRUE
  ELSE IF Kind = "reader" THEN s # "b"
  ELSE IF Kind = "keys" THEN s \in KeysRead(Top.e)
  ELSE IF Kind = "okeys" THEN s \in {"x", ITERATE_KEY}
  ELSE IF Kind \in Coded THEN Instr = <<"read", s>>
  ELSE /\ Kind \in Scripted
       /\ LET n == Len(Top.vals) IN
          CASE Kind = "sum" -> (n = 0 /\ s = "a") \/ (n = 1 /\ s = "b")
            [] Kind = "cond" -> (n = 0 /\ s = "a") \/ (n = 1 /\ Top.vals[1] # 0 /\ s = "b")
            [] Kind = "ida" -> n = 0 /\ s = "a"
            [] Kind = "obs1" -> n = 0 /\ s = "c1"
            [] Kind = "obsCA" -> (n = 0 /\ s = "c1") \/ (n = 1 /\ s = "a")
            [] Kind = "obsA" -> n = 0 /\ s = "a"
            [] Kind = "obsB" -> n = 0 /\ s = "b"
            [] Kind \in ArrObservers -> n = 0 /\ s = ObsKey(Kind)
            [] Kind \in ObjObservers -> n = 0 /\ s = ObjObsKey(Kind)

MayReturn ==
  /\ stack # <<>>
  /\ IF Kind \in {"free", "reader", "keys", "okeys"} THEN TRUE
     ELSE IF Kind \in Coded THEN Instr[1] = "end"
     ELSE Kind \in Scripted /\ \A s \in Slots : ~MayRead(s)

\* a + b of JavaScript numbers
Add(x, y) == IF x = NaN \/ y = NaN \/ x = Undef \/ y = Undef THEN NaN ELSE x + y

\* what fn returns, from the values its reads returned
Result(kind, vals) ==
  CASE kind = "sum" -> Add(vals[1], vals[2])
    [] kind = "cond" -> IF vals[1] = 0 THEN 0 ELSE Add(vals[1], vals[2])
    [] kind = "ida" -> vals[1]
    [] OTHER -> Undef

\* the getter of kind k applied to the values v of the refs
Getter(k, v) ==
  CASE k = "sum" -> Add(v["a"], v["b"])
    [] k = "cond" -> IF v["a"] = 0 THEN 0 ELSE Add(v["a"], v["b"])
    [] k = "ida" -> v["a"]
    [] OTHER -> Undef

\* the refs the getter of kind k reads when the refs hold v
GetterReads(k, v) ==
  CASE k = "sum" -> {"a", "b"}
    [] k = "cond" -> IF v["a"] = 0 THEN {"a"} ELSE {"a", "b"}
    [] k = "ida" -> {"a"}
    [] OTHER -> {}

\* the value a read evaluates to arrives in the user code that made the read;
\* an observer pushes to its log as soon as it has the operands
Deliver(st, v) ==
  IF st.stack = <<>> THEN st
  ELSE LET i == Len(st.stack)
           e == st.stack[i].e
           k == IF st.stack[i].kind = "fn" THEN prog[e] ELSE None
           got == st.stack[i].vals
           pushes == \/ k \in {"obs1", "obsA", "obsB"} \cup ArrObservers \cup ObjObservers
                     \/ (k = "obsCA" /\ Len(got) = 1)
           pushed == IF k = "obsCA" THEN Add(got[1], v) ELSE v
       IN
       IF k \in Scripted \cup Coded
       THEN [st EXCEPT !.stack[i].vals = Append(@, v),
                       !.log = IF pushes THEN [@ EXCEPT ![e] = Append(@, pushed)] ELSE @]
       ELSE st

StackBound == IF prog["e1"] = "free" THEN MaxStack ELSE MaxNest

\* the frames of the chain of wrappers are not counted
Within(st) ==
  /\ Len(SelectSeq(st.stack, LAMBDA f : f.e \notin Wrappers)) <= StackBound
  /\ \A e \in PlainEffects : Len(st.log[e]) <= MaxLog /\ Len(st.hist[e]) <= MaxLog
  /\ st.nread <= MaxReads

\* The fn of a nesting effect is () => next(): it calls the runner of the
\* next effect of the chain and returns when that call has returned.  The
\* calls and returns of the chain are made up to the point where user code
\* that is not a nesting effect runs.
RECURSIVE Settle(_, _)
Settle(st, fuel) ==
  IF fuel = 0 \/ st.stack = <<>> THEN st
  ELSE
    LET n == Len(st.stack)
        f == st.stack[n]
    IN IF f.kind # "fn" \/ f.e \notin Wrappers THEN st
       ELSE IF f.vals = <<>>
       THEN Settle(run([st EXCEPT !.stack[n].vals = <<Undef>>], NextOf(f.e), "user", None),
                   fuel - 1)
       ELSE LET s1 == [st EXCEPT !.stack = SubSeq(@, 1, n - 1)]
            IN Settle(IF f.tracked THEN runFinally(s1, f) ELSE s1, fuel - 1)

\* ----------------------------------------------------------------- actions
\* get value of RefImpl
RefGet(st, r) ==
  LET s1 == trackRefValue(st, r) IN Deliver(s1, s1.val[r])

ReadRef(r) ==
  /\ UserCtx /\ MayRead(r)
  /\ LET s1 == RefGet(Cur, r) IN Within(s1) /\ Commit(s1)

\* get value of ComputedRefImpl
ComputedGet(st, c) ==
  LET s1 == trackRefValue(st, c) IN
  IF s1.comp[c].dirty \/ ~s1.comp[c].cacheable
  THEN LET s2 == [s1 EXCEPT !.comp[c].dirty = FALSE]
           s3 == run(s2, EffectOf(c), "cget", c)
       IN IF Len(s3.stack) > Len(s2.stack) THEN s3
          ELSE Deliver([s3 EXCEPT !.comp[c].value = Undef,
                                  !.done = [NoEvent EXCEPT !.c = c, !.v = Undef]], Undef)
  ELSE Deliver([s1 EXCEPT !.done = [NoEvent EXCEPT !.c = c, !.v = s1.comp[c].value]],
               s1.comp[c].value)

ReadComputed(c) ==
  /\ UserCtx /\ MayRead(c)
  /\ LET s1 == [Cur EXCEPT !.nread = IF c = "c1" /\ prog["ce1"] = "sum" THEN @ + 1 ELSE @]
         s2 == ComputedGet(s1, c)
     IN Within(s2) /\ Commit(s2)

\* set value of RefImpl
RefSet(st, r, v) ==
  IF hasChanged(v, st.val[r])
  THEN triggerRefValue([st EXCEPT !.val[r] = v], r)
  ELSE st

\* what the observer of kind k pushes when the refs hold v
Observed(k, v) ==
  CASE k = "obsA" -> v["a"]
    [] k = "obsB" -> v["b"]
    [] k = "obs1" -> Getter(prog["ce1"], v)
    [] k = "obsCA" -> Add(Getter(prog["ce1"], v), v["a"])
    [] OTHER -> Undef

\* history: a changing write is one more observation due to every observer
\* that exists, and unsettles the caches computed from the ref
NoteWrite(st, r, v) ==
  LET nv == [st.val EXCEPT ![r] = v]
      due(e) == /\ st.hist[e] # <<>>
                /\ \/ prog[e] = "obsA" /\ r = "a"
                   \/ prog[e] = "obsB" /\ r = "b"
                   \/ prog[e] = "obs1" /\ r \in GetterReads(prog["ce1"], st.val)
                   \/ prog[e] = "obsCA"
                        /\ r \in GetterReads(prog["ce1"], st.val) \cup {"a"}
      seen(e) == Observed(prog[e], nv)
  IN IF v = st.val[r] THEN st
     ELSE [st EXCEPT
             !.hist = [e \in PlainEffects |->
                         IF due(e) THEN Append(st.hist[e], seen(e)) ELSE st.hist[e]],
             !.cache = [c \in Computeds |->
                          IF r \in st.cache[c].src
                          THEN [st.cache[c] EXCEPT !.clean = FALSE]
                          ELSE st.cache[c]]]

WriteRef(r, v) ==
  /\ UserCtx
  /\ AnyCode \/ (Instr = <<"toggle", r>> /\ v = 1 - val[r])
  /\ LET s1 == RefSet(NoteWrite(Step(Cur), r, v), r, v) IN Within(s1) /\ Commit(s1)

\* history: an observer makes its first observation when it is created
NoteCreate(st, e) ==
  IF prog[e] \in ArrObservers
  THEN [st EXCEPT !.hist[e] = <<ArrGet(st.arr, ObsKey(prog[e]))>>]
  ELSE IF prog[e] \in ObjObservers
  THEN [st EXCEPT !.hist[e] = <<ObjObserved(prog[e], st.obj)>>]
  ELSE IF prog[e] \in Observers
  THEN [st EXCEPT !.hist[e] = <<Observed(prog[e], st.val)>>]
  ELSE st

\* history: a write to the array that changes what an observer of the array
\* reads is one more observation due to it
NoteSet(st, i, v) ==
  LET na == ArrSet(st.arr, i, v)
      due(e) == /\ prog[e] \in ArrObservers
                /\ st.hist[e] # <<>>
                /\ ArrGet(na, ObsKey(prog[e])) # ArrGet(st.arr, ObsKey(prog[e]))
  IN [st EXCEPT !.hist = [e \in PlainEffects |->
                           IF due(e) THEN Append(st.hist[e], ArrGet(na, ObsKey(prog[e])))
                           ELSE st.hist[e]]]

\* history: a write or a delete that changes what an observer of the object
\* reads is one more observation due to it
NoteObj(st, no) ==
  LET due(e) == /\ prog[e] \in ObjObservers
                /\ st.hist[e] # <<>>
                /\ ObjObserved(prog[e], no) # ObjObserved(prog[e], st.obj)
  IN [st EXCEPT !.hist = [e \in PlainEffects |->
                           IF due(e) THEN Append(st.hist[e], ObjObserved(prog[e], no))
                           ELSE st.hist[e]]]

\* arr.push(v) through the reactive proxy
CallPush(v) ==
  /\ UserCtx /\ MayCall("push", v)
  /\ Len(arr) \in Indices /\ Len(trackStack) < MaxPause
  /\ LET s1 == arrayPush(NoteSet(Step(Cur), Len(arr), v), v)
     IN Within(s1) /\ Commit(s1)

\* arr.pop() through the reactive proxy
CallPop ==
  /\ UserCtx /\ AnyCode
  /\ Len(trackStack) < MaxPause
  /\ LET s1 == arrayPop(Cur) IN Within(s1) /\ Commit(s1)

\* the effects triggered by a write of the method have run: the method goes on
MethResume ==
  /\ ~exc /\ stack # <<>> /\ Top.kind = "meth"
  /\ LET s1 == methResume(Cur) IN Within(s1) /\ Commit(s1)

\* obj[key] through the reactive proxy
ReadObj(key) ==
  /\ UserCtx /\ MayRead(key)
  /\ LET s1 == createGetter(Cur, key)
         s2 == Deliver(s1, ObjGet(s1.obj, key))
     IN Within(s2) /\ Commit(s2)

\* Object.keys of the reactive proxy of the object or of the array
OwnKeys(target) ==
  /\ UserCtx /\ MayRead(IF target = "arr" THEN "length" ELSE ITERATE_KEY)
  /\ LET s1 == ownKeys(Cur, target)
         s2 == Deliver(s1, IF target = "arr" THEN Len(s1.arr) ELSE KeySetCode(s1.obj))
     IN Within(s2) /\ Commit(s2)

\* receiver[key] = v, where the receiver is the reactive proxy of the object
\* or its child
WriteObj(key, v, receiver) ==
  /\ UserCtx /\ AnyCode
  /\ LET no == IF receiver = "proxy" THEN [obj EXCEPT ![key] = v] ELSE obj
         s1 == set(NoteObj(Cur, no), key, v, receiver)
         s2 == [s1 EXCEPT !.done.key = key, !.done.v = v, !.done.rcv = receiver]
     IN Within(s2) /\ Commit(s2)

\* delete obj[key] through the reactive proxy
DeleteObj(key) ==
  /\ UserCtx /\ AnyCode
  /\ LET s1 == deleteProperty(NoteObj(Cur, [obj EXCEPT ![key] = Absent]), key)
         s2 == [s1 EXCEPT !.done.key = key, !.done.v = Absent]
     IN Within(s2) /\ Commit(s2)

\* arr[key] through the reactive proxy
ReadKey(key) ==
  /\ UserCtx /\ MayRead(key)
  /\ LET s1 == createGetter(Cur, key)
         s2 == Deliver(s1, ArrGet(s1.arr, key))
     IN Within(s2) /\ Commit(s2)

\* arr[i] = v through the reactive proxy
WriteKey(i, v) ==
  /\ UserCtx /\ AnyCode
  /\ LET s1 == createSetter(NoteSet(Cur, i, v), i, v) IN Within(s1) /\ Commit(s1)

\* arr.length = n through the reactive proxy; an exception that reaches the
\* top level script is reported and the script goes on
SetLength(n) ==
  /\ UserCtx /\ AnyCode
  /\ LET s1 == createSetterLength(Cur, n)
         s2 == [s1 EXCEPT !.exc = s1.exc /\ s1.stack # <<>>]
     IN Within(s2) /\ Commit(s2)

\* readonly(arr)[i] = v
ReadonlyWrite(i, v) ==
  /\ UserCtx /\ AnyCode
  /\ Commit([readonlySet(Cur, i, v) EXCEPT !.done.ro = "set"])

\* delete readonly(arr)[i]
ReadonlyDelete(i) ==
  /\ UserCtx /\ AnyCode
  /\ Commit([readonlyDelete(Cur, i) EXCEPT !.done.ro = "delete"])

\* effect(fn) on first use, the runner afterwards; an observer is only created
RunEffect(e) ==
  /\ UserCtx /\ MayCall("run", e)
  /\ prog[e] \in Observers => hist[e] = <<>>
  /\ LET s1 == Settle(run(NoteCreate(Step(Cur), e), e, "user", None), 2 * Len(WrapSeq) + 2)
     IN Within(s1) /\ Commit(s1)

\* the inner effects an outer effect creates, in the order of their creation
Pool == <<"e2", "e3">>
Fresh == {i \in 1..Len(Pool) : hist[Pool[i]] = <<>>}

\* effect(fn) called by the fn of another effect: a new effect every time
Spawn ==
  /\ UserCtx /\ Instr[1] = "spawn"
  /\ Fresh # {}
  /\ LET e == Pool[CHOOSE i \in Fresh : \A j \in Fresh : i <= j]
         s1 == run(NoteCreate(Step(Cur), e), e, "user", None)
     IN Within(s1) /\ Commit(s1)

\* stop(runner)
Stop(e) ==
  /\ UserCtx /\ MayCall("stop", e)
  /\ Commit(stop(Step(Cur), e))

\* pauseTracking(), enableTracking() and resetTracking() called by user code
PauseTracking ==
  /\ UserCtx /\ MayCall("pause", None)
  /\ AnyCode => Len(trackStack) < MaxPause
  /\ Commit(pauseTracking(Step(Cur)))

EnableTracking ==
  /\ UserCtx /\ MayCall("enable", None)
  /\ AnyCode => Len(trackStack) < MaxPause
  /\ Commit(enableTracking(Step(Cur)))

ResetTracking ==
  /\ UserCtx /\ MayCall("reset", None)
  /\ Commit(resetTracking(Step(Cur)))

\* fn returns: the finally block of run, then the caller goes on.  The
\* caller of the getter of a computed is get value, which stores the result.
Return ==
  /\ UserCtx /\ MayReturn
  /\ LET f == Top
         s1 == [Cur EXCEPT !.stack = SubSeq(@, 1, Len(@) - 1)]
         s2 == IF f.tracked THEN runFinally(s1, f) ELSE s1
         r == Result(prog[f.e], f.vals)
         s3 == IF f.cget # None
               THEN Deliver([s2 EXCEPT
                               !.comp[f.cget].value = r,
                               !.cache[f.cget] =
                                  [clean |-> TRUE,
                                   src |-> IF prog[f.e] = "cond" /\ Len(f.vals) = 1
                                           THEN {"a"}
                                           ELSE GetterReads(prog[f.e], s2.val)]], r)
               ELSE s2
         s4 == [s3 EXCEPT !.done = [NoEvent EXCEPT !.e = IF f.tracked THEN f.e ELSE None,
                                                   !.reads = f.reads, !.c = f.cget, !.v = r]]
         s5 == Settle(s4, 2 * Len(WrapSeq) + 2)
     IN Within(s5) /\ Commit(s5)

\* the next effect a triggerEffects loop fires: <<loop, index>>, or <<0, 0>>
TrigNext(f) ==
  LET P1 == {i \in f.idx..Len(f.list) : ComputedOf(f.list[i]) # None}
      P2a == {i \in f.idx..Len(f.list) : ComputedOf(f.list[i]) = None}
      P2b == {i \in 1..Len(f.list) : ComputedOf(f.list[i]) = None}
      Min(S) == CHOOSE i \in S : \A j \in S : i <= j
  IN IF f.phase = 1
     THEN IF P1 # {} THEN <<1, Min(P1)>>
          ELSE IF P2b # {} THEN <<2, Min(P2b)>> ELSE <<0, 0>>
     ELSE IF P2a # {} THEN <<2, Min(P2a)>> ELSE <<0, 0>>

\* one iteration of a loop of triggerEffects
TrigFire ==
  /\ ~exc /\ stack # <<>> /\ Top.kind = "trig"
  /\ TrigNext(Top)[1] # 0
  /\ LET nx == TrigNext(Top)
         e == Top.list[nx[2]]
         s1 == [Cur EXCEPT !.stack[Len(stack)].phase = nx[1],
                           !.stack[Len(stack)].idx = nx[2] + 1,
                           !.stack[Len(stack)].fired = Append(@, e)]
         s2 == triggerEffect(s1, e)
         called == e # activeEffect \/ eff[e].allowRecurse
         s3 == [s2 EXCEPT !.done.sched = IF called THEN ComputedOf(e) ELSE None]
     IN Within(s3) /\ Commit(s3)

\* both loops of triggerEffects are over
TrigDone ==
  /\ ~exc /\ stack # <<>> /\ Top.kind = "trig"
  /\ TrigNext(Top)[1] = 0
  /\ Commit([Cur EXCEPT !.stack = SubSeq(@, 1, Len(@) - 1)])

\* user code throws
Throw ==
  /\ UserCtx /\ Kind = "free"
  /\ Commit([Cur EXCEPT !.exc = TRUE])

\* the exception leaves the innermost call: the finally block of run
\* executes, the loop of triggerEffects is abandoned; with no caller left
\* the exception is reported and the script goes on
Unwind ==
  /\ exc /\ stack # <<>>
  /\ LET f == Top
         s1 == [Cur EXCEPT !.stack = SubSeq(@, 1, Len(@) - 1)]
         s2 == IF f.kind = "fn" /\ f.tracked THEN runFinally(s1, f) ELSE s1
     IN Commit([s2 EXCEPT !.exc = (s2.stack # <<>>)])

\* the fn that made the failing call catches the exception
Catch ==
  /\ exc /\ stack # <<>> /\ Top.kind = "fn" /\ prog[Top.e] = "free"
  /\ Commit([Cur EXCEPT !.exc = FALSE])

\* ------------------------------------------------------------------- specs
\* the values written to the refs
Vals == {0, 1}
ScenVals == {0, 1, 2, NaN}

InitObjects ==
  /\ val = [r \in Refs |-> 0]
  /\ arr = <<0, 0>>
  /\ obj = [k \in ObjKeys |-> IF k = "x" THEN 0 ELSE Absent]
  /\ trackStack = <<>>
  /\ dep = [s \in Slots |-> noDep]
  /\ eff = [e \in Effects |->
              [active |-> TRUE, deps |-> <<>>, parent |-> None,
               deferStop |-> FALSE, allowRecurse |-> FALSE]]
  /\ comp = [c \in Computeds |-> [dirty |-> TRUE, value |-> Undef, cacheable |-> TRUE]]
  /\ activeEffect = None
  /\ effectTrackDepth = 0
  /\ trackOpBit = 1
  /\ shouldTrack = TRUE
  /\ stack = <<>>
  /\ exc = FALSE
  /\ calls = 0
  /\ log = [e \in PlainEffects |-> <<>>]
  /\ done = NoEvent
  /\ hist = [e \in PlainEffects |-> <<>>]
  /\ nread = 0
  /\ cache = [c \in Computeds |-> [clean |-> FALSE, src |-> {}]]

\* Two effects that run arbitrary user code over two refs: they read both
\* refs and write one of them (the two refs are alike, so that the writes to
\* the other one show nothing more).
Init ==
  /\ InitObjects
  /\ prog = [e \in Effects |->
               IF e = "ce1" THEN "cond" ELSE IF e = "ce2" THEN "ida" ELSE "free"]

Next ==
  \/ \E r \in Refs : ReadRef(r)
  \/ \E v \in Vals : WriteRef("a", v)
  \/ \E e \in FreeEffects : RunEffect(e)
  \/ \E e \in FreeEffects : Stop(e)
  \/ Return
  \/ TrigFire
  \/ TrigDone
  \/ Throw
  \/ Unwind
  \/ Catch

Spec == Init /\ [][Next]_vars

\* Two computeds with pure getters, an effect that only reads, and a top
\* level script that reads, writes and runs the effect.
InitComp ==
  /\ InitObjects
  /\ prog = [e \in Effects |->
               IF e = "ce1" THEN "cond" ELSE IF e = "ce2" THEN "ida" ELSE "reader"]

NextComp ==
  \/ \E r \in Refs : ReadRef(r)
  \/ \E c \in Computeds : ReadComputed(c)
  \/ \E r \in Refs, v \in Vals : WriteRef(r, v)
  \/ RunEffect("e1")
  \/ Return
  \/ TrigFire
  \/ TrigDone

SpecComp == InitComp /\ [][NextComp]_vars

\* The scenarios of the computed c1 = computed(() => a.value + b.value), the
\* effect e1 = effect(() => log.push(c1.value)) and the effect
\* e2 = effect(() => log.push(c1.value + a.value)): the script creates the
\* effects, reads c1.value and writes the refs, in any order.
InitScen ==
  /\ InitObjects
  /\ prog = [e \in Effects |->
               IF e = "ce1" THEN "sum" ELSE IF e = "ce2" THEN "ida"
               ELSE IF e = "e1" THEN "obs1" ELSE IF e = "e2" THEN "obsCA" ELSE "free"]

NextScen ==
  \/ \E r \in Refs : ReadRef(r)
  \/ ReadComputed("c1")
  \/ \E r \in Refs, v \in ScenVals : WriteRef(r, v)
  \/ \E e \in FreeEffects : RunEffect(e)
  \/ Return
  \/ TrigFire
  \/ TrigDone

SpecScen == InitScen /\ [][NextScen]_vars

\* Two effects that run arbitrary user code over the ref a (they read and
\* write it, run and stop each other), and the effect
\* e3 = effect(() => log.push(a.value)) that the script creates at some point.
InitStop ==
  /\ InitObjects
  /\ prog = [e \in Effects |->
               IF e = "ce1" THEN "cond" ELSE IF e = "ce2" THEN "ida"
               ELSE IF e = "e3" THEN "obsA" ELSE "free"]

NextStop ==
  \/ ReadRef("a")
  \/ \E v \in Vals : WriteRef("a", v)
  \/ \E e \in FreeEffects : RunEffect(e)
  \/ (stack = <<>> /\ RunEffect("e3"))
  \/ \E e \in FreeEffects : Stop(e)
  \/ Return
  \/ TrigFire
  \/ TrigDone

SpecStop == InitStop /\ [][NextStop]_vars

\* The reactive array arr = reactive([0, 0]) and its readonly wrapper, with
\* the effects e1 = effect(() => log.push(arr[0])), e2 = effect(() =>
\* log.push(arr[2])) and e3 = effect(() => log.push(arr.length)): the script
\* creates the effects and reads and writes the elements, in any order.
InitArr ==
  /\ InitObjects
  /\ prog = [e \in Effects |->
               IF e = "ce1" THEN "cond" ELSE IF e = "ce2" THEN "ida"
               ELSE IF e = "e1" THEN "obsI0" ELSE IF e = "e2" THEN "obsI2" ELSE "obsLen"]

NextArr ==
  \/ \E k \in Keys : ReadKey(k)
  \/ \E i \in Indices, v \in Vals : WriteKey(i, v)
  \/ \E i \in Indices, v \in Vals : ReadonlyWrite(i, v)
  \/ \E i \in Indices : ReadonlyDelete(i)
  \/ \E e \in PlainEffects : RunEffect(e)
  \/ Return
  \/ TrigFire
  \/ TrigDone

SpecArr == InitArr /\ [][NextArr]_vars

\* Three effects that run arbitrary user code over the ref a: they read it,
\* run each other nested and stop each other.
NextNest ==
  \/ ReadRef("a")
  \/ \E e \in PlainEffects : RunEffect(e)
  \/ \E e \in PlainEffects : Stop(e)
  \/ Return

SpecNest == Init /\ [][NextNest]_vars

\* The outer effect e1 = effect(() => { a.value; effect(() =>
\* log.push(b.value)) }), which creates a new inner effect on each run (e2,
\* then e3), and a script that creates e1 and reads and writes the refs.
InitOuter ==
  /\ InitObjects
  /\ prog = [e \in Effects |->
               IF e = "ce1" THEN "cond" ELSE IF e = "ce2" THEN "ida"
               ELSE IF e = "e1" THEN "outer" ELSE "obsB"]

\* the outer effect runs only while it can still create an inner effect
NextOuter ==
  \/ \E r \in Refs : ReadRef(r)
  \/ \E v \in ScenVals : WriteRef("b", v)
  \/ \E v \in ScenVals : (SeqHas(dep["a"].effs, "e1") => Fresh # {}) /\ WriteRef("a", v)
  \/ (Fresh # {} /\ RunEffect("e1"))
  \/ Spawn
  \/ Return
  \/ TrigFire
  \/ TrigDone

SpecOuter == InitOuter /\ [][NextOuter]_vars

\* Effects that write the ref they read: e1 = effect(() => { r2(); a.value;
\* a.value = 1 - a.value }), e3 the same without the call of r2 and with
\* allowRecurse, and e2 with arbitrary user code, which may stop e1.  The
\* script reads and writes a, runs the effects and stops e1.
InitRecurse ==
  /\ val = [r \in Refs |-> 0]
  /\ arr = <<0, 0>>
  /\ obj = [k \in ObjKeys |-> IF k = "x" THEN 0 ELSE Absent]
  /\ trackStack = <<>>
  /\ dep = [s \in Slots |-> noDep]
  /\ eff = [e \in Effects |->
              [active |-> TRUE, deps |-> <<>>, parent |-> None,
               deferStop |-> FALSE, allowRecurse |-> (e = "e3")]]
  /\ comp = [c \in Computeds |-> [dirty |-> TRUE, value |-> Undef, cacheable |-> TRUE]]
  /\ activeEffect = None
  /\ effectTrackDepth = 0
  /\ trackOpBit = 1
  /\ shouldTrack = TRUE
  /\ stack = <<>>
  /\ exc = FALSE
  /\ calls = 0
  /\ log = [e \in PlainEffects |-> <<>>]
  /\ done = NoEvent
  /\ hist = [e \in PlainEffects |-> <<>>]
  /\ nread = 0
  /\ cache = [c \in Computeds |-> [clean |-> FALSE, src |-> {}]]
  /\ prog = [e \in Effects |->
               IF e = "ce1" THEN "cond" ELSE IF e = "ce2" THEN "ida"
               ELSE IF e = "e1" THEN "selfW" ELSE IF e = "e2" THEN "free" ELSE "recW"]

NextRecurse ==
  \/ ReadRef("a")
  \/ \E v \in Vals : WriteRef("a", v)
  \/ \E e \in PlainEffects : RunEffect(e)
  \/ Stop("e1")
  \/ Return
  \/ TrigFire
  \/ TrigDone

SpecRecurse == InitRecurse /\ [][NextRecurse]_vars

\* Two effects that run arbitrary user code over the ref a (they read it,
\* run and stop each other), run from the top level or at the end of the
\* chain of nested effects w1 .. w30 -> e1, which the script enters at w1
\* (e1 runs at depth 31) or at w2 (e1 runs at depth 30).
Entry == {"w1", "w2"}

InitDeep ==
  /\ val = [r \in Refs |-> 0]
  /\ arr = <<0, 0>>
  /\ obj = [k \in ObjKeys |-> IF k = "x" THEN 0 ELSE Absent]
  /\ trackStack = <<>>
  /\ dep = [s \in Slots |-> noDep]
  /\ eff = [e \in Effects \cup Wrappers |->
              [active |-> TRUE, deps |-> <<>>, parent |-> None,
               deferStop |-> FALSE, allowRecurse |-> FALSE]]
  /\ comp = [c \in Computeds |-> [dirty |-> TRUE, value |-> Undef, cacheable |-> TRUE]]
  /\ activeEffect = None
  /\ effectTrackDepth = 0
  /\ trackOpBit = 1
  /\ shouldTrack = TRUE
  /\ stack = <<>>
  /\ exc = FALSE
  /\ calls = 0
  /\ log = [e \in PlainEffects |-> <<>>]
  /\ done = NoEvent
  /\ hist = [e \in PlainEffects |-> <<>>]
  /\ nread = 0
  /\ cache = [c \in Computeds |-> [clean |-> FALSE, src |-> {}]]
  /\ prog = [e \in Effects \cup Wrappers |->
               IF e \in Wrappers THEN "wrap"
               ELSE IF e = "ce1" THEN "cond" ELSE IF e = "ce2" THEN "ida" ELSE "free"]

NextDeep ==
  \/ ReadRef("a")
  \/ \E e \in FreeEffects : RunEffect(e)
  \/ \E w \in Entry : stack = <<>> /\ RunEffect(w)
  \/ \E e \in FreeEffects : Stop(e)
  \/ Return

SpecDeep == InitDeep /\ [][NextDeep]_vars

\* The effect e1, which runs arbitrary user code, and the effect e3 with the
\* fn "pauser": user code reads the ref a and arr[0], pauses, enables and
\* resets tracking and runs the two effects, nested in any way.
InitPause ==
  /\ InitObjects
  /\ prog = [e \in Effects |->
               IF e = "ce1" THEN "cond" ELSE IF e = "ce2" THEN "ida"
               ELSE IF e = "e3" THEN "pauser" ELSE "free"]

NextPause ==
  \/ ReadRef("a")
  \/ (Kind = "pauser" /\ ReadRef("b"))
  \/ ReadKey("0")
  \/ PauseTracking
  \/ EnableTracking
  \/ ResetTracking
  \/ \E e \in {"e1", "e3"} : RunEffect(e)
  \/ Return

SpecPause == InitPause /\ [][NextPause]_vars

\* The reactive array arr = reactive([0, 0]) with three effects whose fn
\* reads keys of the array (e1 arr[0], e2 arr.length, e3 arr[2], arr.foo and
\* arr[sym], in any order); the script runs the effects, writes elements and
\* sets arr.length.
InitLen ==
  /\ InitObjects
  /\ prog = [e \in Effects |->
               IF e = "ce1" THEN "cond" ELSE IF e = "ce2" THEN "ida" ELSE "keys"]

Lengths == {0, 1, 2, 3}

NextLen ==
  \/ \E k \in ArrKeys : stack # <<>> /\ ReadKey(k)
  \/ (stack = <<>> /\ WriteKey(2, 1))
  \/ \E n \in Lengths : stack = <<>> /\ SetLength(n)
  \/ \E e \in PlainEffects : stack = <<>> /\ RunEffect(e)
  \/ Return
  \/ TrigFire
  \/ TrigDone

SpecLen == InitLen /\ [][NextLen]_vars

\* The reactive object obj = reactive({ x: 0 }) and the reactive array, with
\* the effects e1 = effect(() => log.push(Object.keys(obj).join())), e2 =
\* effect(() => { Object.keys(arr); log.push(toRaw(arr).length) }) and e3 =
\* effect(() => log.push(obj.x)): the script creates the effects, writes and
\* deletes the keys of the object (also through a child of the proxy) and
\* writes the elements of the array.
InitObj ==
  /\ InitObjects
  /\ prog = [e \in Effects |->
               IF e = "ce1" THEN "cond" ELSE IF e = "ce2" THEN "ida"
               ELSE IF e = "e1" THEN "obsKeys" ELSE IF e = "e2" THEN "obsAK" ELSE "obsX"]

ObjVals == {0, 1, NaN}

NextObj ==
  \/ ReadObj("x")
  \/ \E t \in {"obj", "arr"} : OwnKeys(t)
  \/ \E v \in ObjVals, r \in Receivers : WriteObj("x", v, r)
  \/ \E r \in Receivers : WriteObj("y", 1, r)
  \/ \E k \in ObjKeys : DeleteObj(k)
  \/ WriteKey(2, 1)
  \/ \E e \in PlainEffects : RunEffect(e)
  \/ Return
  \/ TrigFire
  \/ TrigDone

SpecObj == InitObj /\ [][NextObj]_vars

\* ------------------------------------- changes between reads of a computed
\* const c1 = computed(() => a.value ? a.value + b.value : 0)
\* const r2 = effect(fn2, { lazy: true }); const r3 = effect(fn3, { lazy: true })
\*   where fn2 and fn3 read c1.value and write a.value, in any order
\* The script calls the runners, reads c1.value and writes a.value.
InitSched ==
  /\ InitObjects
  /\ prog = [e \in Effects |->
               IF e = "ce1" THEN "cond" ELSE IF e = "ce2" THEN "ida"
               ELSE IF e = "e1" THEN "reader" ELSE "free"]

NextSched ==
  \/ \E r \in Refs : stack # <<>> /\ Top.cget # None /\ ReadRef(r)
  \/ ReadComputed("c1")
  \/ \E v \in Vals : WriteRef("a", v)
  \/ \E e \in {"e2", "e3"} : stack = <<>> /\ RunEffect(e)
  \/ Return
  \/ TrigFire
  \/ TrigDone

SpecSched == InitSched /\ [][NextSched]_vars

\* ------------------------------------------- length-altering array methods
\* const r1 = effect(() => { arr.push(1) }, { lazy: true })
\* const r2 = effect(fn2, { lazy: true }), where fn2 calls arr.push(1) and
\*   arr.pop(), reads a.value and catches what the calls throw, in any order
\* const r3 = effect(fn3, { lazy: true }), where fn3 reads arr[2] and
\*   arr[sym], in any order
\* The script calls the runners, arr.push(1) and arr.pop().
InitPush ==
  /\ InitObjects
  /\ prog = [e \in Effects |->
               IF e = "ce1" THEN "cond" ELSE IF e = "ce2" THEN "ida"
               ELSE IF e = "e1" THEN "pusher" ELSE IF e = "e2" THEN "free" ELSE "keys"]

InFn(e) == stack # <<>> /\ Top.kind = "fn" /\ Top.e = e

NextPush ==
  \/ \E k \in {"2", "sym"} : InFn("e3") /\ ReadKey(k)
  \/ InFn("e2") /\ ReadRef("a")
  \/ CallPush(1)
  \/ CallPop
  \/ MethResume
  \/ \E e \in PlainEffects : stack = <<>> /\ RunEffect(e)
  \/ Return
  \/ TrigFire
  \/ TrigDone
  \/ Unwind
  \/ Catch

SpecPush == InitPush /\ [][NextPush]_vars

\* --------------------------------------------- one trigger over several Deps
\* const r1 = effect(() => { obj.x; Object.keys(obj) }, { lazy: true })
\* const r2 = effect(fn2, { lazy: true }), where fn2 reads obj.x, enumerates
\*   the keys of obj and calls r3, in any order
\* const r3 = effect(fn3, { lazy: true }), where fn3 reads obj.x and
\*   enumerates the keys of obj, in any order
\* The script calls the runners, writes obj.x and obj.y and deletes them.
InitMerge ==
  /\ InitObjects
  /\ prog = [e \in Effects |->
               IF e = "ce1" THEN "cond" ELSE IF e = "ce2" THEN "ida"
               ELSE IF e = "e1" THEN "enum" ELSE IF e = "e2" THEN "free" ELSE "okeys"]

NextMerge ==
  \/ stack # <<>> /\ ReadObj("x")
  \/ stack # <<>> /\ OwnKeys("obj")
  \/ \E k \in ObjKeys : stack = <<>> /\ WriteObj(k, 1, "proxy")
  \/ \E k \in ObjKeys : stack = <<>> /\ DeleteObj(k)
  \/ \E e \in PlainEffects : stack = <<>> /\ RunEffect(e)
  \/ stack # <<>> /\ RunEffect("e3")
  \/ Return
  \/ TrigFire
  \/ TrigDone

SpecMerge == InitMerge /\ [][NextMerge]_vars


\* ------------------------------------------------------------------ claims
\* the Deps that contain effect e
Subs(e) == {s \in Slots : SeqHas(dep[s].effs, e)}
Idle == activeEffect = None
FnFrames == {i \in 1..Len(stack) : stack[i].kind = "fn"}

\* C1: whenever no effect is running, an effect is a member of a Dep if and
\* only if the Dep is in the deps list of the effect.
C1_DepEffectSymmetry ==
  Idle => \A s \in Slots, e \in Effects : SeqHas(dep[s].effs, e) <=> SeqHas(eff[e].deps, s)

\* An effect was stopped by an effect nested in it (its markers were left
\* behind), and another effect is subscribed, with no effect running.
C1_Witness ==
  /\ Idle
  /\ \E e \in PlainEffects : ~eff[e].active /\ \E s \in Slots : dep[s].w # 0
  /\ \E e \in PlainEffects : eff[e].active /\ Subs(e) # {}

\* C2: whenever no effect is running, both bitmask fields of every Dep are 0.
C2_MarkersZeroWhenIdle ==
  Idle => \A s \in Slots : dep[s].w = 0 /\ dep[s].n = 0

\* C3: once stop() has been called on an effect, no trigger invokes its fn.
\* (run() calls fn untracked exactly when the effect is no longer active.)
C3_NoRefireAfterStop ==
  \A i \in FnFrames : stack[i].via = "trigger" => stack[i].tracked

\* C4: after a completed run() of an active effect (depth at most 30) the
\* Deps that contain the effect are exactly the Deps tracked during the run.
C4_SubscribedToExactlyTheReads ==
  (done.e # None /\ eff[done.e].active /\ effectTrackDepth < maxMarkerBits)
     => Subs(done.e) = done.reads

\* this step starts an execution of the getter of computed c
GetterStarts(c) ==
  /\ Len(stack') = Len(stack) + 1
  /\ stack'[Len(stack')].kind = "fn"
  /\ stack'[Len(stack')].cget = c

\* C5: from the end of an execution of the getter of a computed until a ref
\* that execution read is changed, no read of the computed starts the getter
\* again: the read is answered with the cached value, which stays as it is.
C5_NoRecomputeWithoutChange ==
  [][\A c \in Computeds :
       cache[c].clean =>
         /\ ~GetterStarts(c)
         /\ (done'.c = c => done'.v = comp[c].value /\ comp'[c] = comp[c])]_vars

\* C6: the getter of c1 is executed only in a step that is a read of
\* c1.value, and once only: it has not run while nothing has read c1 (neither
\* the construction nor a write runs it), and from the first read on, however
\* many writes came before, it has run exactly once until the second read.
C6_GetterRunsOnlyOnRead ==
  [][/\ calls' # calls => (calls' = calls + 1 /\ nread' = nread + 1)
     /\ nread' = 0 => calls' = 0
     /\ nread' = 1 => calls' = 1]_vars

\* The only read of c1.value so far came after both refs were written, and
\* the getter has run once, returning 2 + 1.
C6_Witness ==
  /\ nread = 1 /\ calls = 1
  /\ val["a"] = 2 /\ val["b"] = 1
  /\ done.c = "c1" /\ done.v = 3

\* C7: once the triggers of a write are over, an effect that reads c1.value
\* has run once when it was created and once more for each write that
\* changed a or b since.
C7_OncePerChange ==
  stack = <<>> =>
    \A e \in PlainEffects :
       (prog[e] \in {"obs1", "obsCA"} /\ hist[e] # <<>>) => Len(log[e]) = Len(hist[e])

\* C8: a read of the value of a computed, made outside its getter, returns
\* the result of the getter over the current values of the refs.
C8_ReadsAreFresh ==
  done.c # None => done.v = Getter(prog[EffectOf(done.c)], val)

\* C9: once the triggers of a write are over, the effect that reads a has
\* observed the value a held when it was created and then each value that a
\* write changed a to, and nothing else.
C9_ObservesEveryChange ==
  stack = <<>> => log["e3"] = hist["e3"]

\* C10: while a call of triggerEffects is in progress, an effect of its
\* snapshot that owns no computed runs only after the scheduler of every
\* effect of the snapshot that owns a computed has been called.
C10_ComputedBeforePlain ==
  \A i, j \in 1..Len(stack) :
     (/\ i < j
      /\ stack[i].kind = "trig"
      /\ stack[j].kind = "fn" /\ stack[j].via = "trigger"
      /\ SeqHas(stack[i].list, stack[j].e))
     => \A k \in 1..Len(stack[i].list) :
          ComputedOf(stack[i].list[k]) # None => SeqHas(stack[i].fired, stack[i].list[k])

\* C11: once the triggers of a write are over, an effect that reads only
\* arr[i] has observed the value arr[i] held when the effect was created and
\* then each value that a write changed arr[i] to, and nothing else: a write
\* of a different value to arr[i] re-fires it, a write to another index,
\* existing or new, does not.
C11_OnlyOwnIndexRefires ==
  stack = <<>> => log["e1"] = hist["e1"] /\ log["e2"] = hist["e2"]

\* Both effects have been re-fired by a write to their own index, and the
\* array has grown past the index of the other one.
C11_Witness ==
  /\ stack = <<>>
  /\ Len(log["e1"]) >= 2 /\ Len(log["e2"]) >= 2
  /\ Len(log["e3"]) >= 2
  /\ Len(arr) = 3

\* C12: once the outer effect has been re-fired and has created a new inner
\* effect, the inner effect of its earlier run is no longer in the Dep of b,
\* and a write to b does not fire it.
C12_StaleInnerDetached ==
  (hist["e3"] # <<>> /\ activeEffect # "e1") =>
     /\ ~SeqHas(dep["b"].effs, "e2")
     /\ \A i \in FnFrames : stack[i].e = "e2" => stack[i].via # "trigger"

\* C13: at no point are two executions of the fn of the same effect in
\* progress at the same time.
C13_NoReentry ==
  \A i, j \in FnFrames : i # j => stack[i].e # stack[j].e

\* the bit of the level above depth d is clear in Dep d1
LevelClear(d1, d) ==
  BitAnd(d1.w, Shl1(d + 1)) = 0 /\ BitAnd(d1.n, Shl1(d + 1)) = 0

\* C14: when an exception thrown by fn has left run(), activeEffect,
\* effectTrackDepth, trackOpBit and shouldTrack are what they were when run()
\* was entered, the parent link of the effect is cleared, and the bit of the
\* level of the run is clear in every Dep the effect had on entry or tracked
\* during the run.
C14_ThrowRestoresTracking ==
  [][(Unwind /\ Top.kind = "fn" /\ Top.tracked) =>
       /\ activeEffect' = Top.pre.ae
       /\ effectTrackDepth' = Top.pre.depth
       /\ trackOpBit' = Top.pre.bit
       /\ shouldTrack' = Top.pre.st
       /\ eff'[Top.e].parent = None
       /\ \A s \in Top.pre.deps \cup Top.reads : LevelClear(dep'[s], Top.pre.depth)]_vars

\* C15: stop() called on the active effect changes no Dep and leaves the
\* effect active with its deps; and when a run() during which stop() was
\* called on the running effect exits, the effect is in no Dep, its deps list
\* is empty and it is not active.
C15_SelfStopIsDeferred ==
  [][/\ \A e \in Effects :
          (activeEffect = e /\ Stop(e)) =>
             /\ dep' = dep
             /\ eff'[e].active = eff[e].active
             /\ eff'[e].deps = eff[e].deps
     /\ \A e \in Effects :
          (/\ Return \/ Unwind
           /\ Top.kind = "fn" /\ Top.tracked /\ Top.e = e /\ eff[e].deferStop) =>
             /\ Subs(e)' = {}
             /\ eff'[e].deps = <<>>
             /\ ~eff'[e].active]_vars

\* C17: in every state trackOpBit is 1 << effectTrackDepth; with no run in
\* progress activeEffect is undefined and the depth is 0; and the first read
\* that the fn of an active effect makes after a nested run has returned
\* subscribes that effect, and no other, to the Dep read.
C17_ActiveEffectStack ==
  [][/\ trackOpBit' = Shl1(effectTrackDepth')
     /\ stack' = <<>> => (activeEffect' = None /\ effectTrackDepth' = 0)
     /\ \A r \in Refs :
          (/\ done.e # None /\ ReadRef(r)
           /\ stack # <<>> /\ Top.kind = "fn" /\ Top.tracked /\ eff[Top.e].active)
          => /\ activeEffect = Top.e
             /\ SeqHas(dep'[r].effs, Top.e)
             /\ \A e \in Effects \ {Top.e} :
                   SeqHas(dep'[r].effs, e) => SeqHas(dep[r].effs, e)]_vars

\* the effect that the next iteration of the loop of triggerEffects visits
Visited == Top.list[TrigNext(Top)[2]]
\* the write that called triggerEffects was made by the fn of effect e
WrittenBy(e) ==
  /\ Len(stack) >= 2
  /\ stack[Len(stack) - 1].kind = "fn"
  /\ stack[Len(stack) - 1].e = e

\* C18: when the loop of a trigger started by a write of the fn of effect e
\* visits e itself, fn is not executed (with allowRecurse run() is called and
\* returns at once); when it visits another effect that is not running, the
\* fn of that effect is executed.
C18_NoSelfRefire ==
  [][TrigFire =>
       /\ WrittenBy(Visited) => stack' = [stack EXCEPT ![Len(stack)] = stack'[Len(stack)]]
       /\ (/\ ~WrittenBy(Visited)
           /\ ComputedOf(Visited) = None
           /\ \A i \in FnFrames : stack[i].e # Visited)
          => /\ Len(stack') = Len(stack) + 1
             /\ stack'[Len(stack')].kind = "fn" /\ stack'[Len(stack')].e = Visited]_vars

\* C19: in the cascade of a write no effect is run by a trigger while an
\* execution of its fn started by a trigger is still in progress, so that
\* the executions in progress are never more than the effects.
C19_CascadeIsBounded ==
  LET T == {i \in FnFrames : stack[i].via = "trigger"} IN
  /\ \A i, j \in T : i # j => stack[i].e # stack[j].e
  /\ Cardinality(T) <= Cardinality(PlainEffects)

\* this step enters a tracked run of effect e
Enters(e) ==
  /\ Len(stack') = Len(stack) + 1
  /\ stack'[Len(stack')].kind = "fn"
  /\ stack'[Len(stack')].e = e /\ stack'[Len(stack')].tracked

\* C20: a run entered at a depth above 30 starts with the effect in no Dep,
\* no step made at a depth above 30 changes the w or n of a Dep, and a run of
\* an effect that is active when the run returns leaves the effect in exactly
\* the Deps read during the run, at a depth above 30 as at a depth of at most
\* 30: both paths produce the same subscriptions from the same reads.
C20_DeepRunEqualsBitmaskRun ==
  [][/\ \A e \in PlainEffects :
          (Enters(e) /\ effectTrackDepth' > maxMarkerBits) =>
             Subs(e)' = {} /\ eff'[e].deps = <<>>
     /\ (effectTrackDepth > maxMarkerBits \/ effectTrackDepth' > maxMarkerBits) =>
          \A s \in Slots : dep'[s].w = dep[s].w /\ dep'[s].n = dep[s].n
     /\ \A e \in PlainEffects :
          (/\ Return /\ Top.tracked /\ Top.e = e /\ eff'[e].active) =>
             Subs(e)' = Top.reads]_vars

\* C16: a set or a deleteProperty through the readonly wrapper of the array
\* leaves the target, every Dep, every effect, the call stack and the logs
\* as they are (nothing is tracked, nothing is triggered, no effect is
\* fired), and returns true.
C16_ReadonlyWriteIsNoOp ==
  [][done'.ro # None =>
       /\ arr' = arr /\ val' = val /\ dep' = dep /\ eff' = eff
       /\ stack' = stack /\ log' = log
       /\ activeEffect' = activeEffect /\ effectTrackDepth' = effectTrackDepth
       /\ done'.ret = TRUE]_vars

\* A deleteProperty through the readonly wrapper was made while the effects
\* were subscribed to the index and to the length of the array.
C16_Witness ==
  /\ done.ro = "delete"
  /\ SeqHas(dep["0"].effs, "e1") /\ SeqHas(dep["length"].effs, "e3")
  /\ Len(arr) = 3

\* C21: a read of a ref or of arr[0] made while shouldTrack is false or while
\* no effect is active leaves every Dep as it is (none is created, no
\* membership, w or n changes) and leaves the deps list of every effect as
\* it is.
C21_TrackIsNoOpWhenPaused ==
  [][(/\ (\E r \in Refs : ReadRef(r)) \/ ReadKey("0")
      /\ ~shouldTrack \/ activeEffect = None)
       => dep' = dep /\ eff' = eff]_vars

\* The fn of e3 has read arr[0] while e3 was the active effect and tracking
\* was paused, and arr[0] has no Dep.
C21_Witness ==
  /\ stack # <<>> /\ Top.kind = "fn" /\ Top.e = "e3" /\ Top.tracked
  /\ Len(Top.vals) = 2
  /\ activeEffect = "e3" /\ ~shouldTrack
  /\ ~dep["0"].exists

\* C27: pauseTracking and enableTracking push shouldTrack and set it to false
\* and to true, resetTracking pops it back and sets it to true on an empty
\* stack, so that after the matched pairs of the fn of e3 shouldTrack has
\* the value it had before each pair; a run entered while tracking is
\* paused has shouldTrack true, its reads are tracked, it leaves trackStack
\* alone and its exit restores the value shouldTrack had at entry.
C27_PauseIsAStack ==
  [][/\ PauseTracking => trackStack' = Append(trackStack, shouldTrack) /\ ~shouldTrack'
     /\ EnableTracking => trackStack' = Append(trackStack, shouldTrack) /\ shouldTrack'
     /\ ResetTracking =>
          IF trackStack = <<>> THEN shouldTrack' /\ trackStack' = <<>>
          ELSE /\ shouldTrack' = trackStack[Len(trackStack)]
               /\ trackStack' = SubSeq(trackStack, 1, Len(trackStack) - 1)
     /\ (stack # <<>> /\ Top.kind = "fn" /\ Top.e = "e3" /\ Top.tracked) =>
          /\ Len(Top.vals) \in {5, 6} => ~shouldTrack
          /\ Len(Top.vals) \in {0, 3, 4, 7, 8} => shouldTrack
     /\ \A e \in PlainEffects :
          Enters(e) => shouldTrack' /\ trackStack' = trackStack
     /\ \A r \in Refs :
          (/\ ReadRef(r) /\ stack # <<>> /\ Top.kind = "fn" /\ Top.tracked
           /\ activeEffect = Top.e /\ shouldTrack)
            => r \in stack'[Len(stack)].reads
     /\ (Return /\ Top.tracked) =>
          shouldTrack' = Top.pre.st /\ trackStack' = trackStack]_vars

\* The fn of e3, entered while tracking was paused, has made its two matched
\* pairs and its reads of a and of b were tracked.
C27_Witness ==
  /\ stack # <<>> /\ Top.kind = "fn" /\ Top.e = "e3" /\ Top.tracked
  /\ ~Top.pre.st /\ trackStack # <<>>
  /\ Len(Top.vals) = 8
  /\ Top.reads = {"a", "b"}
  /\ shouldTrack

\* C22: a call of the runner of an effect that is not active starts fn with
\* activeEffect, effectTrackDepth, trackOpBit, every Dep and every effect as
\* they were; the effect is in no Dep and its deps list is empty when the
\* call is made, and no read made by that execution of fn puts the effect in
\* a Dep or changes its deps list.
C22_InactiveRunDoesNotTrack ==
  [][/\ \A e \in FreeEffects :
          (RunEffect(e) /\ ~eff[e].active) =>
             /\ activeEffect' = activeEffect
             /\ effectTrackDepth' = effectTrackDepth /\ trackOpBit' = trackOpBit
             /\ dep' = dep /\ eff' = eff
             /\ eff[e].deps = <<>> /\ Subs(e) = {}
     /\ \A r \in Refs :
          (ReadRef(r) /\ stack # <<>> /\ Top.kind = "fn" /\ ~Top.tracked) =>
             /\ eff'[Top.e].deps = eff[Top.e].deps
             /\ SeqHas(dep'[r].effs, Top.e) => SeqHas(dep[r].effs, Top.e)]_vars

\* the effects subscribed to the Dep of "length" or of an index >= n
LengthSubscribers(n) ==
  {e \in Effects : \E k \in Keys :
     /\ k = "length" \/ IndexOf(k) >= n
     /\ SeqHas(dep[k].effs, e)}

\* C23: arr.length = n with n smaller than the length, made by the script,
\* starts the firing of exactly the effects subscribed to the Dep of
\* "length" or of an index >= n (each once, no effect subscribed only to a
\* smaller index, to arr.foo or to arr[sym]), and raises no exception.
C23_ShorterLengthFiresTail ==
  [][\A n \in Lengths :
       (SetLength(n) /\ n < Len(arr) /\ stack = <<>>) =>
          /\ ~done'.err
          /\ IF LengthSubscribers(n) = {} THEN \A i \in 1..Len(stack') : stack'[i].list = <<>>
             ELSE /\ Len(stack') = 1 /\ stack'[1].kind = "trig"
                  /\ {stack'[1].list[i] : i \in 1..Len(stack'[1].list)} = LengthSubscribers(n)
                  /\ \A i, j \in 1..Len(stack'[1].list) :
                        i # j => stack'[1].list[i] # stack'[1].list[j]]_vars

\* C24: whenever the script is idle, the effect that enumerated the keys of
\* the object has logged once for its creation and once for every change
\* of the set of keys (a key added, a key deleted) and not for a write that
\* changes the value of a key the object has; the effect that enumerated
\* the array has logged once more for every index added.
C24_EnumerationFollowsKeys ==
  stack = <<>> => log["e1"] = hist["e1"] /\ log["e2"] = hist["e2"]

\* The effect that enumerated the object was re-fired for an added and for a
\* deleted key, the one that enumerated the array for an added index, and
\* the last write changed the value of x, which the object has, and fired
\* only the effect that reads x.
C24_Witness ==
  /\ Len(log["e1"]) >= 3 /\ Len(log["e2"]) >= 2
  /\ SeqHas(dep[ITERATE_KEY].effs, "e1") /\ SeqHas(dep["length"].effs, "e2")
  /\ done.ret /\ Len(stack) = 1 /\ Top.kind = "trig" /\ Top.list = <<"e3">>
  /\ Top.fired = <<>>

\* the effects whose firing a step has started
Started == IF stack' = <<>> THEN {} ELSE {stack'[1].list[i] : i \in 1..Len(stack'[1].list)}
\* the effects in the Dep of a key
Members(k) == {dep[k].effs[i] : i \in 1..Len(dep[k].effs)}

Range(q) == {q[i] : i \in 1..Len(q)}
NoDuplicates(q) == \A i, j \in 1..Len(q) : q[i] = q[j] => i = j

\* C29: a trigger the script starts with an ADD or a DELETE on the object
\* assembles the members the Dep of the key and the Dep of the
\* iterate-sentinel have at that moment, each effect once; as long as the
\* call iterates, the effects it is to fire stay the same whatever subscribes
\* in between, every effect it fires is one of them that it has not fired
\* yet, and when it is over it has fired each of them exactly once.
C29_MergedDepsFireOnceFromSnapshot ==
  [][/\ (stack = <<>> /\ stack' # <<>> /\ done'.key # None) =>
          /\ stack'[1].kind = "trig"
          /\ NoDuplicates(stack'[1].list)
          /\ (obj[done'.key] = Absent \/ done'.v = Absent) =>
                Range(stack'[1].list) = Members(done'.key) \cup Members(ITERATE_KEY)
          /\ (obj[done'.key] # Absent /\ done'.v # Absent) =>
                Range(stack'[1].list) = Members(done'.key)
     /\ (stack # <<>> /\ stack[1].kind = "trig" /\ stack' # <<>>) =>
          /\ stack'[1].list = stack[1].list
          /\ \/ stack'[1].fired = stack[1].fired
             \/ \E e \in Range(stack[1].list) \ Range(stack[1].fired) :
                  stack'[1].fired = Append(stack[1].fired, e)
     /\ (stack # <<>> /\ stack[1].kind = "trig" /\ stack' = <<>>) =>
          /\ Range(stack[1].fired) = Range(stack[1].list)
          /\ Len(stack[1].fired) = Len(stack[1].list)]_vars

\* delete obj.x has fired e1, subscribed to the Dep of x and to the iterate
\* Dep, and e2, subscribed to the Dep of x alone, each once; the fn of e2 has
\* called the runner of e3, which has enumerated the keys and so subscribed
\* to the iterate Dep during the call, and the call ends without firing e3.
C29_Witness ==
  /\ Len(stack) = 1 /\ Top.kind = "trig"
  /\ obj["x"] = Absent
  /\ Range(Top.fired) = {"e1", "e2"} /\ Len(Top.fired) = 2
  /\ TrigNext(Top)[1] = 0
  /\ "e1" \in Range(dep["x"].effs) \cap Range(dep[ITERATE_KEY].effs)
  /\ "e2" \notin Range(dep[ITERATE_KEY].effs)
  /\ "e3" \in Range(dep[ITERATE_KEY].effs)
  /\ "e3" \notin Range(Top.list)

\* C30: the deps list of every effect, the effects of the computeds and the
\* nesting effects included, holds each Dep at most once.
C30_DepsListHasNoDuplicates ==
  \A e \in DOMAIN eff : NoDuplicates(eff[e].deps)

\* e1 runs at a depth above 30, entered through the chain of nesting
\* effects, and has read a; a is once in its deps, and e2, subscribed to a
\* before, is a member of the Dep of a too.
C30_Witness ==
  /\ effectTrackDepth > maxMarkerBits /\ activeEffect = "e1"
  /\ Top.kind = "fn" /\ Top.e = "e1" /\ Top.reads = {"a"}
  /\ eff["e1"].deps = <<"a">> /\ eff["e2"].deps = <<"a">>
  /\ dep["a"].effs = <<"e2", "e1">>

\* C28: a step that calls the scheduler of a computed triggers the output
\* Dep, firing its members, exactly when dirty was false, and then sets
\* dirty; called with dirty set it changes nothing.  dirty goes from false to
\* true in no other step, and from true to false only in a read of the value
\* of that computed: between two reads the members of the output Dep are
\* fired at most once, however many changes call the scheduler.
C28_SchedulerTriggersOncePerRead ==
  [][\A c \in Computeds :
       /\ done'.sched = c =>
            IF comp[c].dirty
            THEN /\ comp' = comp /\ dep' = dep /\ eff' = eff
                 /\ Len(stack') = Len(stack)
            ELSE /\ comp'[c].dirty
                 /\ dep[c].exists =>
                      /\ Len(stack') = Len(stack) + 1
                      /\ stack'[Len(stack')].kind = "trig"
                      /\ stack'[Len(stack')].list = dep[c].effs
                 /\ ~dep[c].exists => Len(stack') = Len(stack)
       /\ (~comp[c].dirty /\ comp'[c].dirty) => done'.sched = c
       /\ (comp[c].dirty /\ ~comp'[c].dirty) => ReadComputed(c)]_vars

\* A change of a has called the scheduler of c1, which has set dirty and is
\* firing e2 and e3, the members of the output Dep; the fn of the first of
\* them, without reading c1, changes a again: the scheduler has just been
\* called with dirty set and has fired nothing, and the other member is still
\* to be fired, once, by the first trigger.
C28_Witness ==
  /\ done.sched = "c1" /\ comp["c1"].dirty
  /\ Len(stack) = 4
  /\ stack[1].kind = "trig" /\ stack[1].fired = <<"ce1">>
  /\ stack[2].kind = "trig" /\ Range(stack[2].list) = {"e2", "e3"}
  /\ Len(stack[2].fired) = 1
  /\ stack[3].kind = "fn" /\ stack[3].reads = {}
  /\ Top.kind = "trig" /\ Top.fired = <<"ce1">>
  /\ Range(dep["c1"].effs) = {"e2", "e3"}

\* C26: no step of push or pop adds a member to the Dep of length or of an
\* index, the effects e1 and e2 that call these methods are never members of
\* such a Dep, so that no push re-fires them, and when a call of a method made
\* by the fn of an effect is over shouldTrack has the value it had when the
\* method was called.
C26_ArrayMethodsDoNotTrack ==
  [][/\ (CallPush(1) \/ CallPop \/ MethResume) =>
          \A k \in ArrKeys : dep'[k].effs = dep[k].effs
     /\ \A k \in ArrKeys : dep'[k].effs \in {<<>>, <<"e3">>}
     /\ \A i \in 1..Len(stack) :
          (stack[i].kind = "meth" /\ i > 1 /\ Len(stack') < i) =>
             shouldTrack' = stack[i].lastST]_vars

====
